---------------------------- MODULE Spec2Model ----------------------------
(***************************************************************************)
(* A model of rc.rs (src/src/lib.rs): `Rc<T: ?Sized>`, a reference-counted *)
(* pointer made of two raw pointers, one to a heap allocated               *)
(* `Cell<usize>` (the reference count) and one to the heap allocated data. *)
(*                                                                         *)
(* The heap is modelled as two address spaces (counter cells and data      *)
(* blocks).  Addresses are handed out in increasing order and never        *)
(* reused, so that an address identifies one allocation for the whole      *)
(* behaviour and a second release of it is observable.                     *)
(*                                                                         *)
(* A handle lives in a slot.  `Rc` is declared `#[unsafe_no_drop_flag]`    *)
(* under `#![feature(filling_drop)]`: the compiler's drop glue calls       *)
(* `Drop::drop` on the slot and then overwrites the slot with the          *)
(* POST_DROP pattern; the glue may visit the same slot again, which is     *)
(* what the test at the head of `drop` is for.                             *)
(***************************************************************************)
EXTENDS Integers, Sequences, FiniteSets, TLC

\* ---- bounds of the model ----
MaxHandles == 4
MaxCounters == 2
MaxData == 2
MaxLen == 2
MaxElem == 1
MaxSpare == 1
MaxBoxes == 1
UsizeBits == 4

\* ---- program constants ----
NULL == 0
POST_DROP_USIZE == -1

Slots == 1..MaxHandles
CAddr == 1..MaxCounters
DAddr == 1..MaxData
Elems == 0..MaxElem
\* a cell of reserved capacity that was never written
Uninit == MaxElem + 1
\* a cell of a block that was given back to the allocator
Freed == MaxElem + 2
UsizeModulus == 2 ^ UsizeBits

RECURSIVE SeqsOfLen(_)
SeqsOfLen(n) ==
    IF n = 0 THEN {<<>>}
    ELSE {Append(s, e) : s \in SeqsOfLen(n - 1), e \in Elems}

Contents == UNION {SeqsOfLen(n) : n \in 0..MaxLen}

Types == {"sized", "slice", "str", "rc"}

\* the thread that owns the handles, and a second one
Threads == {"t1", "t2"}

VARIABLES
    rc,         \* slot -> the handle's fields: count, data (address, length), type
    hstate,     \* slot -> "unused" | "live" | "dropped"
    counters,   \* counter address -> allocation state, value, times released
    data,       \* data address -> allocation state, cells, times released, destructor runs
    boxes,      \* the Box<[T]> values not yet converted, as fat pointers
    pair,       \* history: counter address -> the data address and content it was built with
    last,       \* history: the last operation, its slot and its input
    thr         \* thread -> the stack of calls of clone and drop it is inside of

vars == <<rc, hstate, counters, data, boxes, pair, last, thr>>

NoHandle == [count |-> NULL, data |-> NULL, len |-> 0, ty |-> "sized"]
NoCounter == [st |-> "unalloc", val |-> 0, frees |-> 0]
\* `owns` is the handle a value of type Rc<..> is, NoHandle for any other value
NoData == [st |-> "unalloc", mem |-> <<>>, owns |-> NoHandle, frees |-> 0, dtors |-> 0]
NoPair == [data |-> NULL, content |-> <<>>, made |-> FALSE, overlap |-> FALSE]
NoOp == [op |-> "none", h |-> 0, src |-> 0, cnt |-> NULL, arg |-> <<>>, spare |-> 0,
         off |-> 0, box |-> NULL, again |-> FALSE, inner |-> NULL, before |-> 0,
         n |-> 0, val |-> <<>>, same |-> FALSE, fed |-> <<>>]

Init ==
    /\ rc = [h \in Slots |-> NoHandle]
    /\ hstate = [h \in Slots |-> "unused"]
    /\ counters = [c \in CAddr |-> NoCounter]
    /\ data = [d \in DAddr |-> NoData]
    /\ boxes = {}
    /\ pair = [c \in CAddr |-> NoPair]
    /\ last = NoOp
    /\ thr = [t \in Threads |-> <<>>]

\* ---- the allocator ----
UnusedSlots == {h \in Slots : hstate[h] = "unused"}
FreshSlot == CHOOSE h \in UnusedSlots : \A g \in UnusedSlots : h <= g
UnallocCounters(cs) == {c \in CAddr : cs[c].st = "unalloc"}
FreshCounter(cs) == CHOOSE c \in UnallocCounters(cs) : \A g \in UnallocCounters(cs) : c <= g
UnallocData(ds) == {d \in DAddr : ds[d].st = "unalloc"}
FreshData(ds) == CHOOSE d \in UnallocData(ds) : \A g \in UnallocData(ds) : d <= g

\* a block is handed out holding `cells`
Alloc(ds, d, cells) ==
    [ds EXCEPT ![d] = [st |-> "live", mem |-> cells, owns |-> NoHandle,
                       frees |-> 0, dtors |-> 0]]

\* the block at d is given back: its cells are no longer the program's
Dealloc(ds, d, runDtor) ==
    [ds EXCEPT ![d] = [st |-> "freed",
                       mem |-> [i \in 1..Len(@.mem) |-> Freed],
                       owns |-> @.owns,
                       frees |-> @.frees + 1,
                       dtors |-> @.dtors + (IF runDtor THEN 1 ELSE 0)]]


\* ---- impl<T: ?Sized> Rc<T>: the reference count ----
\* (**self.count).get()
count(cs, handle) == cs[handle.count].val

\* (**self.count).set(v)
cell_set(cs, handle, v) == [cs EXCEPT ![handle.count].val = v]

\* a subtraction that is lost
minus_one_lost(v) == v

\* v - 1 and v + 1 on a usize
minus_one(v) == (v - 1) % UsizeModulus
plus_one(v) == (v + 1) % UsizeModulus

\* a decrement that takes two
dec_count_by_two(cs, handle) ==
    [cs EXCEPT ![handle.count].val = (cs[handle.count].val - 2) % UsizeModulus]

\* (**self.count).set(self.count() - 1), on a usize
dec_count(cs, handle) ==
    cell_set(cs, handle, minus_one(count(cs, handle)))

\* an increment that is lost
inc_count_lost(cs, handle) == cs

\* (**self.count).set(self.count() + 1), on a usize
inc_count(cs, handle) ==
    cell_set(cs, handle, plus_one(count(cs, handle)))

\* ---- Clone ----
\* a clone that copies the value into a block of its own
clone_deep(cs, ds, handle) ==
    IF UnallocData(ds) = {}
    THEN [counters |-> inc_count(cs, handle), data |-> ds, handle |-> handle]
    ELSE LET d == FreshData(ds) IN
         [counters |-> inc_count(cs, handle),
          data |-> Alloc(ds, d, ds[handle.data].mem),
          handle |-> [handle EXCEPT !.data = d]]

\* the count is incremented and both pointers are copied bit for bit
clone(cs, ds, handle) ==
    [counters |-> inc_count(cs, handle),
     data |-> ds,
     handle |-> [count |-> handle.count, data |-> handle.data,
                 len |-> handle.len, ty |-> handle.ty]]

\* ---- Deref ----
\* the data pointer reinterpreted as &T: for a slice or a str the fat
\* pointer's length says how many cells of the block are the value
deref(ds, handle) == SubSeq(ds[handle.data].mem, 1, handle.len)

\* Borrow::borrow: &**self, the same reference deref gives
borrow(ds, handle) == deref(ds, handle)

\* ---- PartialEq, Hash ----
\* equality of the pointers instead of the values
eq_ptr(ds, lhs, rhs) == lhs.data = rhs.data

\* PartialEq::eq(&**self, &**rhs)
eq(ds, lhs, rhs) == deref(ds, lhs) = deref(ds, rhs)

\* Hash::hash(&**self, state): the value is fed to the hasher, whose state
\* is modelled as the sequence of what it was fed
hash(ds, handle, state) == Append(state, deref(ds, handle))

\* ---- From<Box<T>> ----
\* the count starts at 0
from_box_count_zero(cs, ds, b, ty) ==
    LET c == FreshCounter(cs) IN
    [counters |-> [cs EXCEPT ![c] = [st |-> "live", val |-> 0, frees |-> 0]],
     data |-> ds,
     handle |-> [count |-> c, data |-> b.addr, len |-> b.len, ty |-> ty]]

\* the value is moved out of the box into a box of its own
from_box_reboxed(cs, ds, b, ty) ==
    LET c == FreshCounter(cs)
        d == IF UnallocData(ds) = {} THEN b.addr ELSE FreshData(ds)
    IN  [counters |-> [cs EXCEPT ![c] = [st |-> "live", val |-> 1, frees |-> 0]],
         data |-> IF d = b.addr THEN ds
                  ELSE Alloc(Dealloc(ds, b.addr, FALSE), d, ds[b.addr].mem),
         handle |-> [count |-> c, data |-> d, len |-> b.len, ty |-> ty]]

\* the data pointer is lost and null is stored
from_box_null_data(cs, ds, b, ty) ==
    LET c == FreshCounter(cs) IN
    [counters |-> [cs EXCEPT ![c] = [st |-> "live", val |-> 1, frees |-> 0]],
     data |-> ds,
     handle |-> [count |-> c, data |-> NULL, len |-> b.len, ty |-> ty]]

\* Box::new(Cell::new(1)) is the one allocation; the box's block is left
\* where it is and its pointer is kept
from_box(cs, ds, b, ty) ==
    LET c == FreshCounter(cs) IN
    [counters |-> [cs EXCEPT ![c] = [st |-> "live", val |-> 1, frees |-> 0]],
     data |-> ds,
     handle |-> [count |-> c, data |-> b.addr, len |-> b.len, ty |-> ty]]

\* ---- Drop ----
\* drop(Box::from_raw(*self.count))
free_count(cs, handle) ==
    [cs EXCEPT ![handle.count].st = "freed", ![handle.count].frees = @ + 1]

\* the data block of some other pair goes instead, if there is one
free_data_other(ds, handle) ==
    LET others == {d \in DAddr : d # handle.data /\ ds[d].st = "live"} IN
    IF others = {} THEN Dealloc(ds, handle.data, TRUE)
    ELSE Dealloc(ds, CHOOSE d \in others : TRUE, TRUE)

\* the data block is leaked
free_data_leaked(ds, handle) == ds

\* drop(Box::from_raw(*self.data)): the value's destructor runs and the block goes
free_data(ds, handle) == Dealloc(ds, handle.data, TRUE)

\* a drop that, finding the marker, gives back the data block all the same
drop_marked_frees(cs, ds, handle) ==
    LET ptr == handle.count IN
    IF ptr # NULL /\ ptr # POST_DROP_USIZE
    THEN LET cs1 == dec_count(cs, handle) IN
         IF count(cs1, handle) = 0
         THEN [counters |-> free_count(cs1, handle), data |-> free_data(ds, handle)]
         ELSE [counters |-> cs1, data |-> ds]
    ELSE [counters |-> cs,
          data |-> IF handle.data \in DAddr THEN free_data(ds, handle) ELSE ds]

\* a drop that releases when one reference is still left
drop_one_early(cs, ds, handle) ==
    LET ptr == handle.count IN
    IF ptr # NULL /\ ptr # POST_DROP_USIZE
    THEN LET cs1 == dec_count(cs, handle) IN
         IF count(cs1, handle) <= 1
         THEN [counters |-> free_count(cs1, handle), data |-> free_data(ds, handle)]
         ELSE [counters |-> cs1, data |-> ds]
    ELSE [counters |-> cs, data |-> ds]

drop(cs, ds, handle) ==
    LET ptr == handle.count IN
    IF ptr # NULL /\ ptr # POST_DROP_USIZE
    THEN LET cs1 == dec_count(cs, handle) IN
         IF count(cs1, handle) = 0
         THEN [counters |-> free_count(cs1, handle), data |-> free_data(ds, handle)]
         ELSE [counters |-> cs1, data |-> ds]
    ELSE [counters |-> cs, data |-> ds]

\* a slot filled with null pointers
drop_fill_null(handle) == [count |-> NULL, data |-> NULL, len |-> 0, ty |-> handle.ty]

\* a slot left as it was after `drop`
drop_fill_missing(handle) == handle

\* #[unsafe_no_drop_flag] with filling drop: once `drop` has returned, the
\* glue overwrites every word of the handle with the POST_DROP pattern
drop_fill(handle) ==
    [count |-> POST_DROP_USIZE, data |-> POST_DROP_USIZE,
     len |-> POST_DROP_USIZE, ty |-> handle.ty]

\* ---- the owned and borrowed inputs of the constructors ----
\* A borrowed slice (&[T], &str) is a view of `len` cells of its owner's
\* buffer `base`, starting `off` cells in.
Slice(base, off) == [base |-> base, off |-> off, len |-> Len(base) - off]

\* the value a borrowed slice denotes
SliceValue(s) == SubSeq(s.base, s.off + 1, s.off + s.len)

\* A Vec<T> (and the Vec<u8> inside a String) owns the block at `addr`;
\* `buf` is the whole block, capacity cells, of which the first `len`
\* are initialised.
Vec(addr, content, spare) ==
    [addr |-> addr, buf |-> content \o [i \in 1..spare |-> Uninit], len |-> Len(content)]

VecValue(v) == SubSeq(v.buf, 1, v.len)

\* a copy that starts at the head of the owner's buffer
to_vec_from_start(s, addr) ==
    [addr |-> addr, buf |-> [i \in 1..s.len |-> s.base[i]], len |-> s.len]

\* slice.to_vec(): a new block of exactly len cells, each cloned
to_vec(s, addr) ==
    [addr |-> addr, buf |-> [i \in 1..s.len |-> s.base[s.off + i]], len |-> s.len]

\* String::from_str(string): the bytes are copied into a new String
String_from_str(s, addr) == [vec |-> to_vec(s, addr)]

\* string.into_bytes(): the String's own Vec<u8>, nothing moves
into_bytes(string) == string.vec

\* vec.shrink_to_fit(): the capacity becomes the length; with spare
\* capacity the allocator may move the block to `newaddr`
shrink_to_fit(v, newaddr) ==
    IF Len(v.buf) = v.len THEN v
    ELSE [addr |-> newaddr, buf |-> SubSeq(v.buf, 1, v.len), len |-> v.len]

\* vec.into_boxed_slice(): shrink_to_fit, then the block as a Box<[T]>
into_boxed_slice(v, newaddr) ==
    LET w == shrink_to_fit(v, newaddr) IN
    [addr |-> w.addr, len |-> w.len, cells |-> w.buf]

\* the heap once `v`, which sat in a block of its own, has become box `b`
BoxedHeap(ds, v, b) ==
    IF b.addr = v.addr
    THEN Alloc(ds, b.addr, b.cells)
    ELSE Alloc(Dealloc(Alloc(ds, v.addr, v.buf), v.addr, FALSE), b.addr, b.cells)

\* mem::transmute::<Rc<[u8]>, Rc<str>>: the same words, read at another type
transmute(handle, ty) == [handle EXCEPT !.ty = ty]

\* where shrink_to_fit may leave the block of a Vec at `addr`
NewAddrs(ds, addr) ==
    {addr} \cup (IF UnallocData(ds) \ {addr} = {} THEN {}
                 ELSE {FreshData([ds EXCEPT ![addr].st = "live"])})

\* ---- the constructors, each funnelling into From<Box<T>> ----
\* Rc::new(value): Rc::from(Box::new(value)), the box being a new block at a
Rc_new(cs, ds, value, a) ==
    from_box(cs, Alloc(ds, a, <<value>>), [addr |-> a, len |-> 1], "sized")

\* From<Vec<T>>: Rc::from(vec.into_boxed_slice())
from_vec(cs, ds, v, newaddr) ==
    LET b == into_boxed_slice(v, newaddr) IN
    from_box(cs, BoxedHeap(ds, v, b), b, "slice")

\* From<String>: mem::transmute(Rc::from(string.into_bytes()))
from_string(cs, ds, string, newaddr) ==
    LET r == from_vec(cs, ds, into_bytes(string), newaddr) IN
    [counters |-> r.counters, data |-> r.data, handle |-> transmute(r.handle, "str")]

\* From<&[T]>: Rc::from(slice.to_vec()), the copy being a new block at a
from_slice(cs, ds, s, a, newaddr) == from_vec(cs, ds, to_vec(s, a), newaddr)

\* From<&str>: Rc::from(String::from_str(string))
from_str(cs, ds, s, a, newaddr) == from_string(cs, ds, String_from_str(s, a), newaddr)

\* ---- the operations ----
CanConstruct == UnusedSlots # {} /\ UnallocCounters(counters) # {}

\* the handle r.handle comes to live in a new slot
Construct(opname, r, arg, spare, off, box) ==
    LET h == FreshSlot IN
    /\ rc' = [rc EXCEPT ![h] = r.handle]
    /\ hstate' = [hstate EXCEPT ![h] = "live"]
    /\ counters' = r.counters
    /\ data' = r.data
    /\ pair' = [pair EXCEPT ![r.handle.count] =
                    [data |-> r.handle.data, content |-> arg, made |-> TRUE,
                     overlap |-> FALSE]]
    /\ last' = [op |-> opname, h |-> h, src |-> 0, cnt |-> r.handle.count, arg |-> arg,
                spare |-> spare, off |-> off, box |-> box, again |-> FALSE,
                inner |-> NULL, before |-> 0,
                n |-> 0, val |-> <<>>, same |-> FALSE, fed |-> <<>>]
    /\ UNCHANGED thr

\* the caller heap-allocates a slice itself: let boxed: Box<[T]> = ...
BoxNew(content) ==
    /\ Cardinality(boxes) < MaxBoxes
    /\ UnallocData(data) # {}
    /\ LET d == FreshData(data) IN
        /\ data' = Alloc(data, d, content)
        /\ boxes' = boxes \cup {[addr |-> d, len |-> Len(content)]}
        /\ last' = [NoOp EXCEPT !.op = "box_new", !.arg = content, !.box = d]
    /\ UNCHANGED <<rc, hstate, counters, pair, thr>>

\* Rc::from(boxed): moves the box
FromBox(b) ==
    /\ CanConstruct
    /\ b \in boxes
    /\ Construct("from_box", from_box(counters, data, b, "slice"),
                 SubSeq(data[b.addr].mem, 1, b.len), 0, 0, b.addr)
    /\ boxes' = boxes \ {b}

New(value) ==
    /\ CanConstruct
    /\ UnallocData(data) # {}
    /\ Construct("new", Rc_new(counters, data, value, FreshData(data)),
                 <<value>>, 0, 0, NULL)
    /\ UNCHANGED boxes

FromVec(content, spare) ==
    /\ CanConstruct
    /\ UnallocData(data) # {}
    /\ LET a == FreshData(data) IN
        \E newaddr \in NewAddrs(data, a) :
            Construct("from_vec", from_vec(counters, data, Vec(a, content, spare), newaddr),
                      content, spare, 0, NULL)
    /\ UNCHANGED boxes

FromString(content, spare) ==
    /\ CanConstruct
    /\ UnallocData(data) # {}
    /\ LET a == FreshData(data) IN
        \E newaddr \in NewAddrs(data, a) :
            Construct("from_string",
                      from_string(counters, data, [vec |-> Vec(a, content, spare)], newaddr),
                      content, spare, 0, NULL)
    /\ UNCHANGED boxes

FromSlice(base, off) ==
    /\ CanConstruct
    /\ UnallocData(data) # {}
    /\ LET a == FreshData(data)
           s == Slice(base, off)
       IN  \E newaddr \in NewAddrs(data, a) :
            Construct("from_slice", from_slice(counters, data, s, a, newaddr),
                      SliceValue(s), 0, off, NULL)
    /\ UNCHANGED boxes

FromStr(base, off) ==
    /\ CanConstruct
    /\ UnallocData(data) # {}
    /\ LET a == FreshData(data)
           s == Slice(base, off)
       IN  \E newaddr \in NewAddrs(data, a) :
            Construct("from_str", from_str(counters, data, s, a, newaddr),
                      SliceValue(s), 0, off, NULL)
    /\ UNCHANGED boxes

\* let g = h.clone()
Clone(h) ==
    /\ hstate[h] = "live"
    /\ UnusedSlots # {}
    /\ LET r == clone(counters, data, rc[h])
           g == FreshSlot
       IN  /\ rc' = [rc EXCEPT ![g] = r.handle]
           /\ hstate' = [hstate EXCEPT ![g] = "live"]
           /\ counters' = r.counters
           /\ data' = r.data
           /\ last' = [NoOp EXCEPT !.op = "clone", !.h = g, !.src = h, !.cnt = rc[h].count]
    /\ UNCHANGED <<boxes, pair, thr>>

\* the drop glue runs on slot h: Drop::drop, then the slot is filled.  The
\* glue also runs on a slot it has already been through.
Teardown(h) ==
    /\ hstate[h] \in {"live", "dropped"}
    /\ LET r == drop(counters, data, rc[h]) IN
        /\ counters' = r.counters
        /\ data' = r.data
    /\ rc' = [rc EXCEPT ![h] = drop_fill(rc[h])]
    /\ hstate' = [hstate EXCEPT ![h] = "dropped"]
    /\ last' = [NoOp EXCEPT !.op = "drop", !.h = h, !.cnt = rc[h].count,
                             !.again = (hstate[h] = "dropped")]
    /\ UNCHANGED <<boxes, pair, thr>>

Next ==
    \/ \E content \in Contents : BoxNew(content)
    \/ \E b \in boxes : FromBox(b)
    \/ \E value \in Elems : New(value)
    \/ \E content \in Contents, spare \in 0..MaxSpare : FromVec(content, spare)
    \/ \E content \in Contents, spare \in 0..MaxSpare : FromString(content, spare)
    \/ \E base \in Contents : \E off \in 0..Len(base) : FromSlice(base, off)
    \/ \E base \in Contents : \E off \in 0..Len(base) : FromStr(base, off)
    \/ \E h \in Slots : Clone(h)
    \/ \E h \in Slots : Teardown(h)

Spec == Init /\ [][Next]_vars

\* the pairs built so far
MadePairs == {c \in CAddr : pair[c].made}

\* ---- clone and drop, one memory access at a time ----
\* A call in progress is a frame: the handle it runs on (`self`), where that
\* handle sits (slot h, or inside data block blk), and where the call is.
Frame(kind, h, dst, blk, self, pc, again) ==
    [kind |-> kind, h |-> h, dst |-> dst, blk |-> blk, self |-> self, pc |-> pc,
     tmp |-> 0, again |-> again, inner |-> NULL, before |-> 0]

Top(t) == thr[t][Len(thr[t])]
Running(t, kind, pc) == thr[t] # <<>> /\ Top(t).kind = kind /\ Top(t).pc = pc
SetTop(t, f) == [thr EXCEPT ![t] = [@ EXCEPT ![Len(@)] = f]]
Pop(t) == [thr EXCEPT ![t] = SubSeq(@, 1, Len(@) - 1)]
AllFrames == UNION {{thr[t][i] : i \in 1..Len(thr[t])} : t \in Threads}
BusySlots == {f.h : f \in AllFrames} \cup {f.dst : f \in AllFrames}

\* another thread is inside a call on the pair of counter c
Others(t, c) ==
    \E u \in Threads \ {t} : \E i \in 1..Len(thr[u]) : thr[u][i].self.count = c

\* a call of thread t on counter c begins: did it begin inside another's?
Entered(t, c) ==
    IF c \in CAddr /\ Others(t, c) THEN [pair EXCEPT ![c].overlap = TRUE] ELSE pair

\* the memory a call is about to touch has been given back
CountGone(f) == counters[f.self.count].st # "live"
DataGone(f) == data[f.self.data].st # "live"
Halt(t) == SetTop(t, [Top(t) EXCEPT !.pc = "ub"])

\* the order of the statements of Drop::drop, releasing the data first
drop_next_data_first(pc, cond) ==
    CASE pc = "check" -> IF cond THEN "dec_read" ELSE "fill"
      [] pc = "dec_read" -> "dec_write"
      [] pc = "dec_write" -> "test"
      [] pc = "test" -> IF cond THEN "free_data" ELSE "fill"
      [] pc = "free_data" -> "free_count"
      [] pc = "free_count" -> "fill"

\* the order of the statements of Drop::drop
drop_next(pc, cond) ==
    CASE pc = "check" -> IF cond THEN "dec_read" ELSE "fill"
      [] pc = "dec_read" -> "dec_write"
      [] pc = "dec_write" -> "test"
      [] pc = "test" -> IF cond THEN "free_count" ELSE "fill"
      [] pc = "free_count" -> "free_data"
      [] pc = "free_data" -> "fill"

\* the glue is entered for slot h
BeginDrop(t, h) ==
    /\ thr[t] = <<>>
    /\ hstate[h] \in {"live", "dropped", "moved"}
    /\ h \notin BusySlots
    /\ thr' = [thr EXCEPT ![t] =
                  <<Frame("drop", h, 0, NULL, rc[h], "check", hstate[h] # "live")>>]
    /\ hstate' = [hstate EXCEPT ![h] = IF @ = "live" THEN "dropping" ELSE @]
    /\ pair' = Entered(t, rc[h].count)
    /\ UNCHANGED <<rc, counters, data, boxes, last>>

\* let ptr = *self.count; if !ptr.is_null() && ptr as usize != mem::POST_DROP_USIZE
DropCheck(t) ==
    /\ Running(t, "drop", "check")
    /\ LET f == Top(t)
           ptr == f.self.count
       IN  thr' = SetTop(t, [f EXCEPT !.pc =
                     drop_next("check", ptr # NULL /\ ptr # POST_DROP_USIZE)])
    /\ UNCHANGED <<rc, hstate, counters, data, boxes, pair, last>>

\* dec_count: self.count() is read
DropDecRead(t) ==
    /\ Running(t, "drop", "dec_read")
    /\ LET f == Top(t) IN
        thr' = IF CountGone(f) THEN Halt(t)
               ELSE SetTop(t, [f EXCEPT !.tmp = count(counters, f.self),
                                        !.pc = drop_next("dec_read", TRUE)])
    /\ UNCHANGED <<rc, hstate, counters, data, boxes, pair, last>>

\* dec_count: what was read, less one, is stored
DropDecWrite(t) ==
    /\ Running(t, "drop", "dec_write")
    /\ LET f == Top(t) IN
        IF CountGone(f)
        THEN thr' = Halt(t) /\ UNCHANGED counters
        ELSE /\ counters' = cell_set(counters, f.self, minus_one(f.tmp))
             /\ thr' = SetTop(t, [f EXCEPT !.pc = drop_next("dec_write", TRUE)])
    /\ UNCHANGED <<rc, hstate, data, boxes, pair, last>>

\* if self.count() == 0
DropTest(t) ==
    /\ Running(t, "drop", "test")
    /\ LET f == Top(t) IN
        thr' = IF CountGone(f) THEN Halt(t)
               ELSE SetTop(t, [f EXCEPT !.pc =
                        drop_next("test", count(counters, f.self) = 0)])
    /\ UNCHANGED <<rc, hstate, counters, data, boxes, pair, last>>

\* drop(Box::from_raw(*self.count))
DropFreeCount(t) ==
    /\ Running(t, "drop", "free_count")
    /\ LET f == Top(t) IN
        IF CountGone(f)
        THEN thr' = Halt(t) /\ UNCHANGED counters
        ELSE /\ counters' = free_count(counters, f.self)
             /\ thr' = SetTop(t, [f EXCEPT !.pc = drop_next("free_count", TRUE)])
    /\ UNCHANGED <<rc, hstate, data, boxes, pair, last>>

\* a destructor that leaves a handle inside the value alone
DropFreeData_shallow(t) ==
    /\ Running(t, "drop", "free_data")
    /\ LET f == Top(t)
           o == data[f.self.data].owns
       IN  thr' = SetTop(t, [f EXCEPT !.pc = "dealloc",
                                      !.inner = IF f.self.ty = "rc" THEN o.count ELSE NULL,
                                      !.before = IF o.count \in CAddr
                                                 THEN counters[o.count].val ELSE 0])
    /\ UNCHANGED <<rc, hstate, counters, data, boxes, pair, last>>

\* drop(Box::from_raw(*self.data)), first half: the value's destructor.  A
\* value that is itself an Rc has the glue run on it, inside this call.
DropFreeData(t) ==
    /\ Running(t, "drop", "free_data")
    /\ LET f == Top(t)
           o == data[f.self.data].owns
       IN  IF DataGone(f)
           THEN thr' = Halt(t) /\ UNCHANGED pair
           ELSE IF f.self.ty = "rc"
           THEN /\ thr' = [thr EXCEPT ![t] =
                             Append(SubSeq(@, 1, Len(@) - 1),
                                    [f EXCEPT !.pc = "dealloc", !.inner = o.count,
                                              !.before = IF o.count \in CAddr
                                                         THEN counters[o.count].val
                                                         ELSE 0])
                             \o <<Frame("drop", 0, 0, f.self.data, o, "check", FALSE)>>]
                /\ pair' = Entered(t, o.count)
           ELSE /\ thr' = SetTop(t, [f EXCEPT !.pc = "dealloc"])
                /\ UNCHANGED pair
    /\ UNCHANGED <<rc, hstate, counters, data, boxes, last>>

\* drop(Box::from_raw(*self.data)), second half: the block is given back
DropDealloc(t) ==
    /\ Running(t, "drop", "dealloc")
    /\ LET f == Top(t) IN
        IF DataGone(f)
        THEN thr' = Halt(t) /\ UNCHANGED data
        ELSE /\ data' = free_data(data, f.self)
             /\ thr' = SetTop(t, [f EXCEPT !.pc = drop_next("free_data", TRUE)])
    /\ UNCHANGED <<rc, hstate, counters, boxes, pair, last>>

\* Drop::drop has returned: the glue fills the handle where it sits
DropFill(t) ==
    /\ Running(t, "drop", "fill")
    /\ LET f == Top(t) IN
        /\ thr' = Pop(t)
        /\ IF f.h # 0
           THEN /\ rc' = [rc EXCEPT ![f.h] = drop_fill(rc[f.h])]
                /\ hstate' = [hstate EXCEPT ![f.h] = "dropped"]
                /\ last' = [NoOp EXCEPT !.op = "drop", !.h = f.h, !.cnt = f.self.count,
                                         !.again = f.again, !.inner = f.inner,
                                         !.before = f.before]
                /\ UNCHANGED data
           ELSE /\ data' = [data EXCEPT ![f.blk].owns = drop_fill(@)]
                /\ UNCHANGED <<rc, hstate, last>>
    /\ UNCHANGED <<counters, boxes, pair>>

\* h.clone() is entered; the copy will go to a new slot
BeginClone(t, h) ==
    /\ thr[t] = <<>>
    /\ hstate[h] = "live"
    /\ h \notin BusySlots
    /\ UnusedSlots # {}
    /\ thr' = [thr EXCEPT ![t] =
                  <<Frame("clone", h, FreshSlot, NULL, rc[h], "inc_read", FALSE)>>]
    /\ hstate' = [hstate EXCEPT ![FreshSlot] = "reserved"]
    /\ pair' = Entered(t, rc[h].count)
    /\ UNCHANGED <<rc, counters, data, boxes, last>>

\* inc_count: self.count() is read
CloneIncRead(t) ==
    /\ Running(t, "clone", "inc_read")
    /\ LET f == Top(t) IN
        thr' = IF CountGone(f) THEN Halt(t)
               ELSE SetTop(t, [f EXCEPT !.tmp = count(counters, f.self),
                                        !.pc = "inc_write"])
    /\ UNCHANGED <<rc, hstate, counters, data, boxes, pair, last>>

\* inc_count: what was read, plus one, is stored
CloneIncWrite(t) ==
    /\ Running(t, "clone", "inc_write")
    /\ LET f == Top(t) IN
        IF CountGone(f)
        THEN thr' = Halt(t) /\ UNCHANGED counters
        ELSE /\ counters' = cell_set(counters, f.self, plus_one(f.tmp))
             /\ thr' = SetTop(t, [f EXCEPT !.pc = "ret"])
    /\ UNCHANGED <<rc, hstate, data, boxes, pair, last>>

\* Rc { count: self.count, data: self.data }
CloneReturn(t) ==
    /\ Running(t, "clone", "ret")
    /\ LET f == Top(t) IN
        /\ thr' = Pop(t)
        /\ rc' = [rc EXCEPT ![f.dst] = clone(counters, data, f.self).handle]
        /\ hstate' = [hstate EXCEPT ![f.dst] = "live"]
        /\ last' = [NoOp EXCEPT !.op = "clone", !.h = f.dst, !.src = f.h,
                                 !.cnt = f.self.count]
    /\ UNCHANGED <<counters, data, boxes, pair>>

\* Rc::new(value), by a thread that is in no call
NewBy(t, value) == thr[t] = <<>> /\ New(value)

\* a thread lets go of a handle it holds
DropBy(t, h) == hstate[h] = "live" /\ BeginDrop(t, h)

\* two threads, each cloning and dropping handles of the same pairs
NextRace ==
    \/ \E value \in Elems : NewBy("t1", value)
    \/ \E t \in Threads, h \in Slots : BeginClone(t, h)
    \/ \E t \in Threads : CloneIncRead(t)
    \/ \E t \in Threads : CloneIncWrite(t)
    \/ \E t \in Threads : CloneReturn(t)
    \/ \E t \in Threads, h \in Slots : DropBy(t, h)
    \/ \E t \in Threads : DropCheck(t)
    \/ \E t \in Threads : DropDecRead(t)
    \/ \E t \in Threads : DropDecWrite(t)
    \/ \E t \in Threads : DropTest(t)
    \/ \E t \in Threads : DropFreeCount(t)
    \/ \E t \in Threads : DropFreeData(t)
    \/ \E t \in Threads : DropDealloc(t)
    \/ \E t \in Threads : DropFill(t)

SpecRace == Init /\ [][NextRace]_vars

\* Rc::new(inner), the value being itself an Rc<T>: the handle moves into
\* the new block at a
Rc_new_rc(cs, ds, inner, a) ==
    from_box(cs, [Alloc(ds, a, <<>>) EXCEPT ![a].owns = inner],
             [addr |-> a, len |-> 0], "rc")

\* let outer = Rc::new(h): slot h is moved from, which fills it
NewNested(t, h) ==
    /\ thr[t] = <<>>
    /\ hstate[h] = "live"
    /\ CanConstruct
    /\ UnallocData(data) # {}
    /\ LET r == Rc_new_rc(counters, data, rc[h], FreshData(data))
           g == FreshSlot
       IN  /\ rc' = [rc EXCEPT ![g] = r.handle, ![h] = drop_fill(rc[h])]
           /\ hstate' = [hstate EXCEPT ![g] = "live", ![h] = "moved"]
           /\ counters' = r.counters
           /\ data' = r.data
           /\ pair' = [pair EXCEPT ![r.handle.count] =
                          [data |-> r.handle.data, content |-> <<>>, made |-> TRUE,
                           overlap |-> FALSE]]
           /\ last' = [NoOp EXCEPT !.op = "new_rc", !.h = g, !.src = h,
                                    !.cnt = r.handle.count, !.inner = rc[h].count]
    /\ UNCHANGED <<boxes, thr>>

\* one thread; clone and drop advance one statement at a time, and a
\* value may be a handle of another pair
NextSteps ==
    \/ \E value \in Elems : NewBy("t1", value)
    \/ \E h \in Slots : NewNested("t1", h)
    \/ \E h \in Slots : BeginClone("t1", h)
    \/ CloneIncRead("t1")
    \/ CloneIncWrite("t1")
    \/ CloneReturn("t1")
    \/ \E h \in Slots : BeginDrop("t1", h)
    \/ DropCheck("t1")
    \/ DropDecRead("t1")
    \/ DropDecWrite("t1")
    \/ DropTest("t1")
    \/ DropFreeCount("t1")
    \/ DropFreeData("t1")
    \/ DropDealloc("t1")
    \/ DropFill("t1")

SpecSteps == Init /\ [][NextSteps]_vars

\* ---- the operations that take &self and return what they read ----
\* h.count()
Count(h) ==
    /\ hstate[h] = "live"
    /\ last' = [NoOp EXCEPT !.op = "count", !.h = h, !.cnt = rc[h].count,
                             !.n = count(counters, rc[h])]
    /\ UNCHANGED <<rc, hstate, counters, data, boxes, pair, thr>>

\* a deref that hands out the value for writing, and a write through it
Deref_mut(h) ==
    /\ hstate[h] = "live"
    /\ last' = [NoOp EXCEPT !.op = "deref", !.h = h, !.cnt = rc[h].count,
                             !.val = deref(data, rc[h])]
    /\ data' = [data EXCEPT ![rc[h].data].mem =
                    [i \in 1..Len(@) |-> IF i = 1 THEN (@[i] + 1) % (MaxElem + 1) ELSE @[i]]]
    /\ UNCHANGED <<rc, hstate, counters, boxes, pair, thr>>

\* &*h
Deref(h) ==
    /\ hstate[h] = "live"
    /\ last' = [NoOp EXCEPT !.op = "deref", !.h = h, !.cnt = rc[h].count,
                             !.val = deref(data, rc[h])]
    /\ UNCHANGED <<rc, hstate, counters, data, boxes, pair, thr>>

\* h.borrow()
Borrow(h) ==
    /\ hstate[h] = "live"
    /\ last' = [NoOp EXCEPT !.op = "borrow", !.h = h, !.cnt = rc[h].count,
                             !.val = borrow(data, rc[h])]
    /\ UNCHANGED <<rc, hstate, counters, data, boxes, pair, thr>>

\* h == g
Eq(h, g) ==
    /\ hstate[h] = "live" /\ hstate[g] = "live"
    /\ rc[h].ty = rc[g].ty
    /\ last' = [NoOp EXCEPT !.op = "eq", !.h = h, !.src = g, !.cnt = rc[h].count,
                             !.same = eq(data, rc[h], rc[g])]
    /\ UNCHANGED <<rc, hstate, counters, data, boxes, pair, thr>>

\* h.hash(&mut state), with a new hasher
Hash(h) ==
    /\ hstate[h] = "live"
    /\ last' = [NoOp EXCEPT !.op = "hash", !.h = h, !.cnt = rc[h].count,
                             !.fed = hash(data, rc[h], <<>>)]
    /\ UNCHANGED <<rc, hstate, counters, data, boxes, pair, thr>>

\* handles are built, cloned, read and dropped
NextRead ==
    \/ \E value \in Elems : New(value)
    \/ \E content \in Contents, spare \in 0..MaxSpare : FromVec(content, spare)
    \/ \E h \in Slots : Clone(h)
    \/ \E h \in Slots : Teardown(h)
    \/ \E h \in Slots : Count(h)
    \/ \E h \in Slots : Deref(h)
    \/ \E h \in Slots : Borrow(h)
    \/ \E h, g \in Slots : Eq(h, g)
    \/ \E h \in Slots : Hash(h)

SpecRead == Init /\ [][NextRead]_vars

\* mem::forget(h.clone()): the copy is never dropped, its slot is gone
Forget(h) ==
    /\ hstate[h] = "live"
    /\ LET r == clone(counters, data, rc[h]) IN
        /\ counters' = r.counters
        /\ data' = r.data
    /\ last' = [NoOp EXCEPT !.op = "forget", !.src = h, !.cnt = rc[h].count,
                             !.before = count(counters, rc[h])]
    /\ UNCHANGED <<rc, hstate, boxes, pair, thr>>

\* h.clone() in a build with overflow checks, the counter at its maximum:
\* `self.count() + 1` panics before anything is stored
ClonePanics(h) ==
    /\ hstate[h] = "live"
    /\ count(counters, rc[h]) = UsizeModulus - 1
    /\ last' = [NoOp EXCEPT !.op = "panic", !.src = h, !.cnt = rc[h].count,
                             !.before = count(counters, rc[h])]
    /\ UNCHANGED <<rc, hstate, counters, data, boxes, pair, thr>>

\* the one pair of the scenario is built
NewFirst(value) == MadePairs = {} /\ New(value)

\* clones that are forgotten take the counter as far as it goes
NextWrap ==
    \/ \E value \in Elems : NewFirst(value)
    \/ \E h \in Slots : Clone(h)
    \/ \E h \in Slots : Forget(h)
    \/ \E h \in Slots : ClonePanics(h)
    \/ \E h \in Slots : Teardown(h)

SpecWrap == Init /\ [][NextWrap]_vars

\* ---- what the properties speak of ----
\* the live handles that share counter c
LiveHandles(c) == {h \in Slots : hstate[h] = "live" /\ rc[h].count = c}
Live == {h \in Slots : hstate[h] = "live"}
Dropped == {h \in Slots : hstate[h] = "dropped"}
Constructors == {"new", "from_box", "from_slice", "from_str", "from_string", "from_vec"}

\* C1: for every (counter, data) pair that still has a live handle, the
\* stored counter value equals the number of live handles that reference
\* the pair.
C1_CountIsLiveHandles ==
    \A c \in CAddr :
        LiveHandles(c) # {} => counters[c].val = Cardinality(LiveHandles(c))

\* a pair shared by two handles, after a third one was torn down
C1_Witness ==
    /\ last.op = "drop"
    /\ \E c \in CAddr : Cardinality(LiveHandles(c)) = 2 /\ counters[c].val = 2
    /\ Cardinality(MadePairs) = 1
    /\ Dropped # {}

\* C2: exactly-once release: nothing of a pair is released twice and the
\* value's destructor never runs twice; once no live handle references the
\* pair, the counter block and the data block have each been released once
\* and the destructor has run once.
C2_ExactlyOnceRelease ==
    \A c \in MadePairs :
        LET d == pair[c].data IN
        /\ counters[c].frees <= 1
        /\ data[d].frees <= 1
        /\ data[d].dtors <= 1
        /\ LiveHandles(c) = {} =>
              /\ counters[c].frees = 1 /\ counters[c].st = "freed"
              /\ data[d].frees = 1 /\ data[d].st = "freed"
              /\ data[d].dtors = 1

\* a pair that had three handles, all torn down
C2_Witness ==
    /\ Cardinality(MadePairs) = 1
    /\ Cardinality(Dropped) >= 3
    /\ \E c \in MadePairs : LiveHandles(c) = {} /\ counters[c].frees = 1
    /\ boxes = {}

\* C3: while a handle of a pair is live neither block of the pair is
\* released, and every live handle dereferences to the content the pair was
\* constructed with; so it is for the duplicates left after the original
\* was torn down.
C3_NoReleaseWhileShared ==
    \A h \in Live :
        /\ rc[h].count \in CAddr /\ rc[h].data \in DAddr
        /\ counters[rc[h].count].st = "live"
        /\ data[rc[h].data].st = "live"
        /\ deref(data, rc[h]) = pair[rc[h].count].content

\* the original (slot 1) is gone, two duplicates of it still read the text
C3_Witness ==
    /\ hstate[1] = "dropped"
    /\ Cardinality(MadePairs) = 1
    /\ \E c \in MadePairs :
          /\ Cardinality(LiveHandles(c)) >= 2
          /\ Len(pair[c].content) = MaxLen
          /\ \A h \in LiveHandles(c) : deref(data, rc[h]) = pair[c].content

C5_CountSteps ==
    [][\A c \in CAddr :
          counters[c].st = "live" =>
            /\ Cardinality(LiveHandles(c))' = Cardinality(LiveHandles(c)) + 1
                  => counters'[c].val = counters[c].val + 1
            /\ Cardinality(LiveHandles(c))' = Cardinality(LiveHandles(c)) - 1
                  => /\ counters[c].val >= 1
                     /\ counters'[c].val = counters[c].val - 1
            /\ \A h \in LiveHandles(c)' : count(counters', rc'[h]) = counters'[c].val]_vars

\* three duplicates (count 4), then the original torn down: count() is 3
C5_Witness ==
    /\ hstate[1] = "dropped"
    /\ last.op = "drop" /\ last.h = 1 /\ ~last.again
    /\ \E c \in MadePairs :
          /\ LiveHandles(c) = {2, 3, 4}
          /\ \A h \in LiveHandles(c) : count(counters, rc[h]) = 3

\* C6: on the handle any constructor has just returned, count() is 1.
C6_FreshCountIsOne ==
    last.op \in Constructors =>
        /\ hstate[last.h] = "live"
        /\ count(counters, rc[last.h]) = 1

\* Rc::new has just returned while another pair is shared by two handles
C6_Witness ==
    /\ last.op = "new"
    /\ count(counters, rc[last.h]) = 1
    /\ \E c \in CAddr : c # rc[last.h].count /\ Cardinality(LiveHandles(c)) = 2

\* C7: duplicate allocates nothing and copies no value: the new handle
\* holds the counter pointer and the data pointer of the handle it was
\* called on, and in every state the live counter blocks and the live data
\* blocks are one each per pair of live handles (a box not yet converted
\* holds a data block of its own).
C7_OneAllocationPerValue ==
    /\ [](/\ \A h \in Live : \A g \in Live :
                (rc[h].count = rc[g].count) <=> (rc[h].data = rc[g].data)
          /\ {c \in CAddr : counters[c].st = "live"} = {rc[h].count : h \in Live}
          /\ {d \in DAddr : data[d].st = "live"}
                = {rc[h].data : h \in Live} \cup {b.addr : b \in boxes}
          /\ last.op = "clone" =>
                /\ rc[last.h].count = rc[last.src].count
                /\ rc[last.h].data = rc[last.src].data
                /\ rc[last.h].len = rc[last.src].len)
    /\ [][last'.op = "clone" =>
            /\ data' = data
            /\ \A c \in CAddr : counters'[c].st = counters[c].st]_vars

\* two pairs, the first with three handles: two counter blocks, two data blocks
C7_Witness ==
    /\ last.op = "clone"
    /\ Cardinality(LiveHandles(1)) = 3
    /\ Cardinality(LiveHandles(2)) = 1
    /\ Cardinality({c \in CAddr : counters[c].st = "live"}) = 2
    /\ Cardinality({d \in DAddr : data[d].st = "live"}) = 2

\* C8: Rc::from(Box<T>) returns a handle whose data pointer is the box's
\* own block, which is neither copied nor moved nor changed, paired with a
\* counter block that was not allocated before the call and holds 1; no
\* other counter is touched.
C8_AdoptKeepsAllocation ==
    [][last'.op = "from_box" =>
          LET h == last'.h
              c == rc'[h].count
          IN  /\ \E b \in boxes : b.addr = last'.box /\ rc'[h].data = b.addr
                                  /\ rc'[h].len = b.len
              /\ data' = data
              /\ data[rc'[h].data].st = "live"
              /\ c \in CAddr
              /\ counters[c].st = "unalloc"
              /\ counters'[c].st = "live" /\ counters'[c].val = 1
              /\ \A x \in CAddr \ {c} : counters'[x] = counters[x]]_vars

\* a box was adopted while another pair, with its own counter, is live
C8_Witness ==
    /\ last.op = "from_box"
    /\ Len(last.arg) = MaxLen
    /\ rc[last.h].data = last.box
    /\ \E c \in CAddr : c # rc[last.h].count /\ LiveHandles(c) # {}

\* C9: the handle built from a borrowed slice or text (at any offset into
\* its owner) or from an owned Vec or String (with any spare capacity)
\* dereferences to the input's value: same length, same elements, and the
\* block holds no cell of spare capacity.
C9_ContentFidelity ==
    last.op \in {"from_slice", "from_str", "from_string", "from_vec"} =>
        LET v == deref(data, rc[last.h]) IN
        /\ v = last.arg
        /\ Len(v) = Len(last.arg)
        /\ \A i \in 1..Len(v) : v[i] \in Elems /\ v[i] = last.arg[i]
        /\ Len(data[rc[last.h].data].mem) = Len(last.arg)

\* a text was built from a slice that starts inside its owner
C9_Witness ==
    /\ last.op = "from_str"
    /\ last.off > 0
    /\ Len(last.arg) > 0
    /\ deref(data, rc[last.h]) = last.arg

\* C10: two live handles of one type compare equal exactly when the
\* values their pairs were built with are equal, whatever the blocks, and
\* handles over equal values feed the hasher the same.
C10_EqualityByValue ==
    \A h \in Live : \A g \in Live :
        rc[h].ty = rc[g].ty =>
            /\ eq(data, rc[h], rc[g])
                  <=> (pair[rc[h].count].content = pair[rc[g].count].content)
            /\ pair[rc[h].count].content = pair[rc[g].count].content
                  => hash(data, rc[h], <<>>) = hash(data, rc[g], <<>>)

\* two handles built apart over the same text: different blocks, equal
C10_Witness ==
    \E h \in Live : \E g \in Live :
        /\ rc[h].count # rc[g].count
        /\ rc[h].data # rc[g].data
        /\ rc[h].ty = rc[g].ty
        /\ Len(pair[rc[h].count].content) = MaxLen
        /\ eq(data, rc[h], rc[g])
        /\ hash(data, rc[h], <<>>) = hash(data, rc[g], <<>>)

\* C11: every live handle has a counter pointer and a data pointer that
\* are neither null nor the POST_DROP pattern, and each points to a block
\* that is allocated and was never released.
C11_LiveHandleNonNull ==
    \A h \in Slots :
        hstate[h] = "live" =>
            /\ rc[h].count # NULL /\ rc[h].count # POST_DROP_USIZE
            /\ rc[h].data # NULL /\ rc[h].data # POST_DROP_USIZE
            /\ rc[h].count \in CAddr /\ rc[h].data \in DAddr
            /\ counters[rc[h].count].st = "live" /\ counters[rc[h].count].frees = 0
            /\ data[rc[h].data].st = "live" /\ data[rc[h].data].frees = 0

\* a handle of one pair is live beside a slot that holds the POST_DROP
\* pattern and a pair that was released
C11_Witness ==
    /\ \E h \in Slots : hstate[h] = "live" /\ rc[h].count = 2
    /\ \E g \in Slots : hstate[g] = "dropped" /\ rc[g].count = POST_DROP_USIZE
    /\ counters[1].st = "freed"
    /\ last.op = "clone"


\* the handles of pair c that sit inside a live value of another pair
InnerHandles(c) == {d \in DAddr : data[d].st = "live" /\ data[d].owns.count = c}
Holders(c) == Cardinality(LiveHandles(c)) + Cardinality(InnerHandles(c))
\* no call on pair c is in progress
Idle(c) == \A f \in AllFrames : f.self.count # c

\* the counter of c differs from the number of its handles, or a block of c
\* was released twice, or while a handle was live or a call was using it, or
\* never although no handle is left
BadPair(c) ==
    \/ counters[c].frees > 1 \/ data[pair[c].data].frees > 1
    \/ \E f \in AllFrames : f.self.count = c /\ f.pc = "ub"
    \/ /\ Idle(c)
       /\ IF Holders(c) > 0
          THEN \/ counters[c].val # Holders(c)
               \/ counters[c].st # "live"
               \/ data[pair[c].data].st # "live"
          ELSE counters[c].frees # 1 \/ data[pair[c].data].frees # 1

\* C12: with the counter updated by a read and then a write, two threads
\* that clone and drop handles of one pair can interleave into a bad state
\* (C12_Witness is one); a pair goes bad only where calls of the two
\* threads on it overlapped in time.
C12_BadOnlyByOverlap ==
    \A c \in MadePairs : BadPair(c) => pair[c].overlap

\* both threads are back out of their calls, the pair's blocks are released,
\* and a handle of the pair is still live
C12_Witness ==
    /\ \A t \in Threads : thr[t] = <<>>
    /\ \E c \in MadePairs :
          /\ pair[c].overlap
          /\ LiveHandles(c) # {}
          /\ counters[c].st = "freed" /\ data[pair[c].data].st = "freed"
          /\ counters[c].frees = 1

\* both threads are back out of their calls and the counter of a pair is
\* not the number of its live handles
C12_LostUpdate ==
    /\ \A t \in Threads : thr[t] = <<>>
    /\ \E c \in MadePairs :
          /\ counters[c].st = "live"
          /\ LiveHandles(c) # {}
          /\ counters[c].val # Cardinality(LiveHandles(c))


\* the handles whose counter pointer is null or the POST_DROP pattern,
\* whatever their data pointer is
MarkedHandles ==
    [count : {NULL, POST_DROP_USIZE}, data : DAddr \cup {NULL, POST_DROP_USIZE},
     len : {0, 1, POST_DROP_USIZE}, ty : Types]

\* C14: `drop` on a handle whose counter pointer is null or the POST_DROP
\* pattern does nothing: in every state, for every such handle, it returns
\* the counters and the data blocks as they were, none read for a decision,
\* none decremented, none released.
C14_MarkedTeardownNoOp ==
    \A x \in MarkedHandles :
        drop(counters, data, x) = [counters |-> counters, data |-> data]

\* the glue ran a second time on a slot that holds the pattern, while two
\* pairs are live
C14_Witness ==
    /\ last.op = "drop" /\ last.again
    /\ last.cnt = POST_DROP_USIZE /\ rc[last.h].count = POST_DROP_USIZE
    /\ rc[last.h] \in MarkedHandles
    /\ Cardinality({c \in MadePairs : LiveHandles(c) # {}}) = 2

DropFrames == {f \in AllFrames : f.kind = "drop" /\ f.self.count \in CAddr}

\* C16: within one teardown the counter is decremented before it is tested;
\* when it is zero the counter block is released first and the data block
\* (with the value's destructor) second, so the data block is never gone
\* while the counter block is still there; a teardown that leaves the
\* counter above zero releases nothing.
C16_ReleaseOrder ==
    /\ \A c \in MadePairs :
          data[pair[c].data].st = "freed" => counters[c].st = "freed"
    /\ \A f \in DropFrames :
          LET c == f.self.count IN
          /\ f.pc = "test" => counters[c].val = minus_one(f.tmp)
          /\ f.pc \in {"free_count", "free_data", "dealloc"} =>
                counters[c].val = 0 /\ f.tmp = 1
          /\ f.pc = "free_count" =>
                counters[c].st = "live" /\ data[f.self.data].st = "live"
          /\ f.pc \in {"free_data", "dealloc"} =>
                counters[c].st = "freed" /\ data[f.self.data].st = "live"
          /\ f.pc = "fill" =>
                IF counters[c].val = 0
                THEN /\ counters[c].st = "freed" /\ counters[c].frees = 1
                     /\ data[f.self.data].st = "freed" /\ data[f.self.data].frees = 1
                ELSE /\ counters[c].st = "live" /\ counters[c].frees = 0
                     /\ data[f.self.data].st = "live" /\ data[f.self.data].frees = 0

\* in the middle of a teardown that reached zero: the counter block is
\* released, the data block not yet
C16_Witness ==
    \E f \in DropFrames :
        /\ f.pc = "dealloc" /\ f.tmp = 1
        /\ counters[f.self.count].st = "freed"
        /\ data[f.self.data].st = "live" /\ data[f.self.data].dtors = 0


\* C17: the value of pair A is a handle of pair B.  The teardown that
\* releases A runs the glue on that inner handle inside itself; when it has
\* returned, both blocks of A are released exactly once and the value's
\* destructor ran once, the inner handle is filled, B's counter is one less
\* than before, and B's blocks are released, exactly once, if and only if
\* the counter of B was 1.
C17_NestedTeardown ==
    ((\A t \in Threads : thr[t] = <<>>) /\ last.op = "drop" /\ last.inner \in CAddr) =>
        LET A == last.cnt
            B == last.inner
            once == IF last.before = 1 THEN 1 ELSE 0
        IN  /\ counters[A].st = "freed" /\ counters[A].frees = 1
            /\ data[pair[A].data].st = "freed" /\ data[pair[A].data].frees = 1
            /\ data[pair[A].data].dtors = 1
            /\ data[pair[A].data].owns.count = POST_DROP_USIZE
            /\ counters[B].val = last.before - 1
            /\ counters[B].st = "freed" <=> last.before = 1
            /\ data[pair[B].data].st = "freed" <=> last.before = 1
            /\ counters[B].frees = once
            /\ data[pair[B].data].frees = once /\ data[pair[B].data].dtors = once

\* the outer handle was the only way to B: one teardown released both pairs
C17_Witness ==
    /\ thr["t1"] = <<>>
    /\ last.op = "drop" /\ last.inner \in CAddr /\ last.before = 1
    /\ counters[last.cnt].frees = 1 /\ counters[last.inner].frees = 1
    /\ data[pair[last.inner].data].dtors = 1

\* B had another handle: the teardown of A left B alive with one handle
C17_InnerSurvives ==
    /\ thr["t1"] = <<>>
    /\ last.op = "drop" /\ last.inner \in CAddr /\ last.before = 2
    /\ counters[last.cnt].frees = 1
    /\ counters[last.inner].st = "live" /\ counters[last.inner].val = 1
    /\ Cardinality(LiveHandles(last.inner)) = 1


ReadOps == {"count", "deref", "borrow", "eq", "hash"}

\* C18: count, deref, borrow, == and hash change nothing: no handle, no
\* counter, no data block, no allocation; they return what is stored.  And
\* no step at all changes the data block of a pair that has a live handle
\* before and after it, so every live handle reads the content its pair was
\* built with.
C18_ReadsChangeNothing ==
    [][/\ last'.op \in ReadOps =>
             /\ UNCHANGED <<rc, hstate, counters, data, boxes, pair, thr>>
             /\ last'.op = "count" => last'.n = Cardinality(LiveHandles(last'.cnt))
             /\ last'.op \in {"deref", "borrow"} => last'.val = pair[last'.cnt].content
             /\ last'.op = "hash" => last'.fed = <<pair[last'.cnt].content>>
             /\ last'.op = "eq" =>
                   (last'.same <=>
                      pair[rc[last'.h].count].content = pair[rc[last'.src].count].content)
       /\ \A c \in MadePairs :
             (LiveHandles(c) # {} /\ LiveHandles(c)' # {}) =>
                 /\ data'[pair[c].data] = data[pair[c].data]
                 /\ \A h \in LiveHandles(c) : deref(data, rc[h]) = pair[c].content
      ]_vars

\* a handle was read with every one of the five operations between its
\* construction and now: its pair is shared, and the last read was a hash
C18_Witness ==
    /\ last.op = "hash"
    /\ last.fed = <<pair[last.cnt].content>>
    /\ Len(last.fed[1]) = MaxLen
    /\ Cardinality(LiveHandles(last.cnt)) = 2
    /\ Dropped # {}


\* C19: an operation on one pair leaves every other pair as it was: its
\* counter (value, state, times released), its data block and what it was
\* built from.
C19_PairsIsolated ==
    [][\A c \in MadePairs :
          c # last'.cnt =>
              /\ counters'[c] = counters[c]
              /\ pair'[c] = pair[c]
              /\ data'[pair[c].data] = data[pair[c].data]
      ]_vars

\* two pairs built by different constructors, one handle each, torn down
\* one after the other: each pair released exactly once
C19_Witness ==
    /\ last.op = "drop" /\ ~last.again
    /\ Cardinality(MadePairs) = 2
    /\ Cardinality(Dropped) = 2 /\ Live = {}
    /\ \E h, g \in Dropped : rc[h].ty # rc[g].ty
    /\ \A c \in MadePairs :
          /\ counters[c].frees = 1 /\ counters[c].val = 0
          /\ data[pair[c].data].frees = 1 /\ data[pair[c].data].dtors = 1

\* what C20 says: a clone never leaves a pair that has live handles with a
\* counter of 0, and no pair is released while it has a live handle
C20_CounterNeverWraps ==
    \A c \in MadePairs :
        LiveHandles(c) # {} =>
            /\ counters[c].val # 0
            /\ counters[c].st = "live" /\ data[pair[c].data].st = "live"

\* the clone that wrapped: the counter held 2^w - 1 and now holds 0
C20_Wrapped ==
    /\ last.op \in {"clone", "forget"}
    /\ last.before = UsizeModulus - 1
    /\ counters[last.cnt].val = 0
    /\ LiveHandles(last.cnt) # {}

=============================================================================
